---- MODULE Spec2Model ----
(***************************************************************************)
(* Model of "11.10 - Recursion (vsCode)/main.cpp": the naive recursive     *)
(* Fibonacci, and Fibonacci_memoized_version with its static result cache. *)
(* Every function activation is a frame on an explicit call stack; one     *)
(* action is one step of the activation on top of the stack.               *)
(***************************************************************************)
EXTENDS Integers, Sequences, FiniteSets, TLC

\* ---- bounds of the model ----
\* largest index a caller passes to Fibonacci_memoized_version in Spec
MaxN == 5
\* number of top-level calls a behaviour of Spec makes
MaxCalls == 3
\* an out-of-range read of the vector yields some value in 0..MaxGarbage
MaxGarbage == 2
\* number of nested activations the model follows
MaxDepth == 24
\* a caller of SpecSigned passes an int of -MaxNeg..MaxN
MaxNeg == 2
\* largest argument passed to countDown_plus and countDown
MaxCount == 6
\* sumTo is called with -MaxNeg..MaxSum and with the arguments around the
\* largest sum that fits int
MaxSum == 8
\* largest argument passed to factorial_of_an_integer_N
MaxFact == 13
\* quesion_two and question_three are called with -MaxNeg..MaxDigit and with
\* some larger arguments
MaxDigit == 30

\* ---- program constants ----
\* for(std::size_t i{ 0 }; i < 20; ++i)
MemoLoopEnd == 20
\* for(std::size_t i{ 0 }; i < 13; ++i)
NaiveLoopEnd == 13

\* largest value of int (the element type of results, the type of the
\* parameters and results of the int functions)
Int32Max == 2147483647

\* the calls of the scenario "evaluate(10) then evaluate(5)"
Scenario == <<10, 5>>

VARIABLES
  results,    \* static std::vector<int> results (results[k+1] is C++ results[k])
  stack,      \* call stack below main: the active frames, innermost last
  orderFib,   \* operand of + evaluated first on line 43 (fixed by the build)
  orderMemo,  \* operand of + evaluated first on line 57 (fixed by the build)
  crashed,    \* the process was terminated by an out-of-range access
  i,          \* loop variable of main's memoized loop
  nCalls,     \* top-level calls issued so far
  lastArg,    \* argument of the latest top-level call (-1: none)
  lastRet,    \* value it returned (-1: not returned)
  prevArg,    \* argument of the top-level call before it (-1: none)
  prevRet,    \* value that one returned
  before,     \* results as the latest top-level call found it
  newCalls,   \* function calls made on behalf of the latest top-level call
  totalCalls, \* all function calls made so far, top-level ones included
  bodyCount,  \* index -> number of times its recurrence body was executed
  out         \* what the program has written to std::cout, in order

vars == <<results, stack, orderFib, orderMemo, out, crashed, i, nCalls, lastArg,
          lastRet, prevArg, prevRet, before, newCalls, totalCalls, bodyCount>>

\* ---- mathematics the claims refer to ----
\* the n-th Fibonacci number, computed iteratively
RECURSIVE FibIter(_, _, _)
FibIter(n, a, b) == IF n = 0 THEN a ELSE FibIter(n - 1, b, a + b)

FibNumber(n) == FibIter(n, 0, 1)

IsPrefix(s, t) == Len(s) <= Len(t) /\ SubSeq(t, 1, Len(s)) = s

\* 1 + 2 + ... + m, for m >= 0 (the even factor is halved before the
\* multiplication, so that the product stays within 32 bits)
Triangle(m) ==
  IF m % 2 = 0 THEN (m \div 2) * (m + 1) ELSE m * ((m + 1) \div 2)

\* the product 1 * 2 * ... * n continued from acc = 1 * ... * (k-1), or -1
\* when it exceeds lim
RECURSIVE ProductFrom(_, _, _, _)
ProductFrom(k, n, acc, lim) ==
  IF k > n THEN acc
  ELSE IF acc > lim \div k THEN -1
  ELSE ProductFrom(k + 1, n, acc * k, lim)

\* n! for n >= 0, or -1 when n! exceeds lim
FactorialWithin(n, lim) == ProductFrom(1, n, 1, lim)

\* 10^p
RECURSIVE TenTo(_)
TenTo(p) == IF p = 0 THEN 1 ELSE 10 * TenTo(p - 1)

\* the decimal digit of x (0 <= x < 2^31) at position p, p = 0 the last
DecimalDigit(x, p) == (x \div TenTo(p)) % 10

RECURSIVE SumOver(_, _, _)
SumOver(x, p, acc) ==
  IF p < 0 THEN acc ELSE SumOver(x, p - 1, acc + DecimalDigit(x, p))

\* the sum of the ten decimal digits of x (leading ones are 0)
DigitSum(x) == SumOver(x, 9, 0)

\* the number a sequence of binary digits denotes, first digit most significant
RECURSIVE BinaryValue(_)
BinaryValue(bits) ==
  IF bits = <<>> THEN 0
  ELSE 2 * BinaryValue(SubSeq(bits, 1, Len(bits) - 1)) + bits[Len(bits)]

\* 1 + 2 + ... + m does not exceed lim
TriangleFits(m, lim) ==
  IF m % 2 = 0 THEN (m \div 2) <= lim \div (m + 1)
               ELSE m <= lim \div ((m + 1) \div 2)

\* ---- the program ----
\* A std::size_t value v is represented by the integer of least magnitude
\* congruent to v modulo 2^64: 0, 1, 2, ... stand for themselves and -k
\* stands for 2^64 - k.  Subtracting a small number needs no correction in
\* this representation; comparing does.

\* conversion of an int argument to the std::size_t parameter
ToSizeT(n) == n

\* a < b as std::size_t values
ULess(a, b) ==
  IF (a >= 0) = (b >= 0) THEN a < b ELSE a >= 0

\* static std::vector<int> results{0, 1};
InitialResults == <<0, 1>>

\* x < static_cast<int>(std::size(results))
CacheHit(x, res) == ULess(x, Len(res))

\* a slip: the entry stored last is returned instead of the entry for x
CachedValueBack(res, x) == res[Len(res)]

\* results[x] for an index inside the vector
CachedValue(res, x) == res[x + 1]

\* a slip: the result is written over the last entry instead of appended
PushBackOverwrite(res, v) == [res EXCEPT ![Len(res)] = v]

\* results.push_back(v)
PushBack(res, v) == Append(res, v)

\* values "return results[x]" can produce: the element, or, for x outside
\* the vector (undefined behaviour), any value
ReadResults(res, x) ==
  IF CacheHit(x, res) THEN {CachedValue(res, x)} ELSE 0..MaxGarbage

\* a new activation of function fn with argument x
Frame(fn, x) == [fn |-> fn, x |-> x, pc |-> "enter", got |-> 0, acc |-> 0]

\* the argument of the operand evaluated k-th (k = 1, 2) in f(x-1) + f(x-2)
Operand(order, x, k) ==
  IF (order = "left") = (k = 1) THEN x - 1 ELSE x - 2

\* the stack after the top frame calls Fibonacci(arg)
PushCall(stk, arg) ==
  Append([stk EXCEPT ![Len(stk)].pc = "wait"], Frame("fib", arg))

\* the stack after the top frame returns v: the caller, if any, adds v to
\* the sum it is evaluating
PopReturn(stk, v) ==
  LET n == Len(stk) IN
  IF n = 1 THEN <<>>
  ELSE [SubSeq(stk, 1, n - 1) EXCEPT ![n - 1].got = @ + 1,
                                     ![n - 1].acc = @ + v]

CountBody(bc, x) ==
  IF x \in DOMAIN bc THEN [bc EXCEPT ![x] = @ + 1] ELSE bc @@ (x :> 1)

Top == stack[Len(stack)]

Running == ~crashed /\ stack # <<>>

Init ==
  /\ results = InitialResults
  /\ stack = <<>>
  /\ orderFib \in {"left", "right"}
  /\ orderMemo \in {"left", "right"}
  /\ crashed = FALSE
  /\ i = 0
  /\ nCalls = 0
  /\ lastArg = -1
  /\ lastRet = -1
  /\ prevArg = -1
  /\ prevRet = -1
  /\ before = InitialResults
  /\ newCalls = 0
  /\ totalCalls = 0
  /\ bodyCount = <<>>
  /\ out = <<>>

\* main (or any caller) calls Fibonacci_memoized_version(n)
Invoke(n) ==
  /\ ~crashed
  /\ stack = <<>>
  /\ stack' = <<Frame("memo", n)>>
  /\ nCalls' = nCalls + 1
  /\ prevArg' = lastArg
  /\ prevRet' = lastRet
  /\ lastArg' = n
  /\ lastRet' = -1
  /\ before' = results
  /\ newCalls' = 0
  /\ totalCalls' = totalCalls + 1
  /\ UNCHANGED <<results, orderFib, orderMemo, out, crashed, bodyCount>>

\* a caller evaluates some index
Call ==
  /\ nCalls < MaxCalls
  /\ \E n \in 0..MaxN : Invoke(n)
  /\ UNCHANGED i

\* the top frame returns v to its caller
Return(v) ==
  /\ stack' = PopReturn(stack, v)
  /\ lastRet' = IF Len(stack) = 1 THEN v ELSE lastRet

\* the top frame calls Fibonacci(arg)
CallFib(arg) ==
  /\ Len(stack) < MaxDepth
  /\ stack' = PushCall(stack, arg)
  /\ newCalls' = newCalls + 1
  /\ totalCalls' = totalCalls + 1

\* Fibonacci_memoized_version, lines 52-57: the cache check
MemoCheck ==
  /\ Running
  /\ Top.fn = "memo" /\ Top.pc = "enter"
  /\ IF CacheHit(Top.x, results)
       THEN /\ Return(CachedValue(results, Top.x))
            /\ UNCHANGED <<newCalls, totalCalls, bodyCount>>
       ELSE /\ CallFib(Operand(orderMemo, Top.x, 1))
            /\ bodyCount' = CountBody(bodyCount, Top.x)
            /\ UNCHANGED lastRet
  /\ UNCHANGED <<results, orderFib, orderMemo, out, crashed, i, nCalls, lastArg,
                 prevArg, prevRet, before>>

\* line 57: the second operand of the sum
MemoNext ==
  /\ Running
  /\ Top.fn = "memo" /\ Top.pc = "wait" /\ Top.got = 1
  /\ CallFib(Operand(orderMemo, Top.x, 2))
  /\ UNCHANGED <<results, orderFib, orderMemo, out, crashed, i, nCalls, lastArg,
                 lastRet, prevArg, prevRet, before, bodyCount>>

\* lines 57-58: push_back of the sum, then return results[x]
MemoStore ==
  /\ Running
  /\ Top.fn = "memo" /\ Top.pc = "wait" /\ Top.got = 2
  /\ results' = PushBack(results, Top.acc)
  /\ \/ /\ \E v \in ReadResults(results', Top.x) : Return(v)
        /\ UNCHANGED crashed
     \/ /\ ~CacheHit(Top.x, results')
        /\ crashed' = TRUE
        /\ UNCHANGED <<stack, lastRet>>
  /\ UNCHANGED <<orderFib, orderMemo, out, i, nCalls, lastArg, prevArg, prevRet,
                 before, newCalls, totalCalls, bodyCount>>

\* a slip: the term for 2 is treated as a base case as well
IsBaseCaseTwo(x) == x = 0 \/ x = 1 \/ x = 2

\* a slip: the base case for 1 is missing
IsBaseCaseZero(x) == x = 0

\* if(x == 0) ... else if(x == 1) ...
IsBaseCase(x) == x = 0 \/ x = 1

\* a slip: both base cases return 1
FibBaseValueOne(x) == 1

\* return 0; for x == 0, return 1; for x == 1
FibBaseValue(x) == IF x = 0 THEN 0 ELSE 1

\* Fibonacci, lines 38-43: base cases, or the first operand of the sum
FibEnter ==
  /\ Running
  /\ Top.fn = "fib" /\ Top.pc = "enter"
  /\ IF IsBaseCase(Top.x)
       THEN /\ Return(FibBaseValue(Top.x))
            /\ UNCHANGED <<newCalls, totalCalls, bodyCount>>
       ELSE /\ CallFib(Operand(orderFib, Top.x, 1))
            /\ bodyCount' = CountBody(bodyCount, Top.x)
            /\ UNCHANGED lastRet
  /\ UNCHANGED <<results, orderFib, orderMemo, out, crashed, i, nCalls, lastArg,
                 prevArg, prevRet, before>>

\* line 43: the second operand of the sum
FibNext ==
  /\ Running
  /\ Top.fn = "fib" /\ Top.pc = "wait" /\ Top.got = 1
  /\ CallFib(Operand(orderFib, Top.x, 2))
  /\ UNCHANGED <<results, orderFib, orderMemo, out, crashed, i, nCalls, lastArg,
                 lastRet, prevArg, prevRet, before, bodyCount>>

\* line 43: return the sum
FibReturn ==
  /\ Running
  /\ Top.fn = "fib" /\ Top.pc = "wait" /\ Top.got = 2
  /\ Return(Top.acc)
  /\ UNCHANGED <<results, orderFib, orderMemo, out, crashed, i, nCalls, lastArg,
                 prevArg, prevRet, before, newCalls, totalCalls, bodyCount>>

Step ==
  \/ MemoCheck
  \/ MemoNext
  \/ MemoStore
  \/ FibEnter
  \/ FibNext
  \/ FibReturn

Next == Call \/ Step

Spec == Init /\ [][Next]_vars

\* the program is one thread of synchronous calls: an activation that can
\* take its next step takes it
SpecFair == Spec /\ WF_vars(Step)

\* ---- the scenario: evaluate(10), then evaluate(5) ----
CallScenario ==
  /\ nCalls < Len(Scenario)
  /\ Invoke(Scenario[nCalls + 1])
  /\ UNCHANGED i

NextScenario == CallScenario \/ Step

SpecScenario == Init /\ [][NextScenario]_vars

\* ---- main's memoized loop, lines 300-303 ----
\* i < 20: the body calls Fibonacci_memoized_version(i)
MainCall ==
  /\ i < MemoLoopEnd
  /\ nCalls = i
  /\ Invoke(i)
  /\ UNCHANGED i

\* the call has returned: its value is printed, then ++i
MainIncr ==
  /\ ~crashed
  /\ stack = <<>>
  /\ nCalls = i + 1
  /\ out' = Append(out, lastRet)
  /\ i' = i + 1
  /\ UNCHANGED <<results, stack, orderFib, orderMemo, crashed, nCalls,
                 lastArg, lastRet, prevArg, prevRet, before, newCalls,
                 totalCalls, bodyCount>>

NextMain == MainCall \/ MainIncr \/ Step

SpecMain == Init /\ [][NextMain]_vars

\* ---- main's naive loop, lines 270-273 ----
\* i < 13: the body calls Fibonacci(i)
NaiveCall ==
  /\ i < NaiveLoopEnd
  /\ nCalls = i
  /\ ~crashed
  /\ stack = <<>>
  /\ stack' = <<Frame("fib", i)>>
  /\ nCalls' = nCalls + 1
  /\ prevArg' = lastArg
  /\ prevRet' = lastRet
  /\ lastArg' = i
  /\ lastRet' = -1
  /\ newCalls' = 0
  /\ totalCalls' = totalCalls + 1
  /\ UNCHANGED <<results, orderFib, orderMemo, out, crashed, i, before,
                 bodyCount>>

\* the call has returned: its value is printed, then ++i
NaiveIncr ==
  /\ ~crashed
  /\ stack = <<>>
  /\ nCalls = i + 1
  /\ out' = Append(out, lastRet)
  /\ i' = i + 1
  /\ UNCHANGED <<results, stack, orderFib, orderMemo, crashed, nCalls,
                 lastArg, lastRet, prevArg, prevRet, before, newCalls,
                 totalCalls, bodyCount>>

NextNaive == NaiveCall \/ NaiveIncr \/ FibEnter \/ FibNext \/ FibReturn

SpecNaive == Init /\ [][NextNaive]_vars

\* ---- countDown_plus, lines 10-18 ----
\* a slip: the recursion stops one call later
CdpRecursesToZero(count) == count > 0

\* if( count > 1 )
CdpRecurses(count) == count > 1

\* main (or any caller) calls countDown_plus(n)
CdpCall ==
  /\ ~crashed
  /\ stack = <<>>
  /\ nCalls = 0
  /\ \E n \in (-MaxNeg)..MaxCount :
       /\ stack' = <<Frame("countDown_plus", n)>>
       /\ lastArg' = n
  /\ nCalls' = nCalls + 1
  /\ totalCalls' = totalCalls + 1
  /\ UNCHANGED <<results, orderFib, orderMemo, out, crashed, i, lastRet,
                 prevArg, prevRet, before, newCalls, bodyCount>>

\* lines 12-15: print "push count", then recurse while count > 1
CdpEnter ==
  /\ Running
  /\ Top.fn = "countDown_plus" /\ Top.pc = "enter"
  /\ out' = Append(out, <<"push", Top.x>>)
  /\ IF CdpRecurses(Top.x)
       THEN /\ Len(stack) < MaxDepth
            /\ stack' = Append([stack EXCEPT ![Len(stack)].pc = "called"],
                               Frame("countDown_plus", Top.x - 1))
            /\ newCalls' = newCalls + 1
            /\ totalCalls' = totalCalls + 1
       ELSE /\ stack' = [stack EXCEPT ![Len(stack)].pc = "called"]
            /\ UNCHANGED <<newCalls, totalCalls>>
  /\ UNCHANGED <<results, orderFib, orderMemo, crashed, i, nCalls, lastArg,
                 lastRet, prevArg, prevRet, before, bodyCount>>

\* line 17-18: print "pop count" and return
CdpPop ==
  /\ Running
  /\ Top.fn = "countDown_plus" /\ Top.pc = "called"
  /\ out' = Append(out, <<"pop", Top.x>>)
  /\ stack' = SubSeq(stack, 1, Len(stack) - 1)
  /\ UNCHANGED <<results, orderFib, orderMemo, crashed, i, nCalls, lastArg,
                 lastRet, prevArg, prevRet, before, newCalls, totalCalls,
                 bodyCount>>

NextCountDownPlus == CdpCall \/ CdpEnter \/ CdpPop

SpecCountDownPlus == Init /\ [][NextCountDownPlus]_vars

\* ---- countDown, lines 4-8 ----
\* a slip: the recursive call counts up
CdNextCountUp(count) == count + 1

\* the argument of the recursive call: count-1
CdNextCount(count) == count - 1

\* main (or any caller) calls countDown(n)
CdCall ==
  /\ ~crashed
  /\ stack = <<>>
  /\ nCalls = 0
  /\ \E n \in (-MaxNeg)..MaxCount :
       /\ stack' = <<Frame("countDown", n)>>
       /\ lastArg' = n
  /\ nCalls' = nCalls + 1
  /\ totalCalls' = totalCalls + 1
  /\ UNCHANGED <<results, orderFib, orderMemo, out, crashed, i, lastRet,
                 prevArg, prevRet, before, newCalls, bodyCount>>

\* lines 6-7: print "push count", then call countDown(count-1)
CdEnter ==
  /\ Running
  /\ Top.fn = "countDown" /\ Top.pc = "enter"
  /\ Len(stack) < MaxDepth
  /\ out' = Append(out, <<"push", Top.x>>)
  /\ stack' = Append([stack EXCEPT ![Len(stack)].pc = "called"],
                     Frame("countDown", CdNextCount(Top.x)))
  /\ newCalls' = newCalls + 1
  /\ totalCalls' = totalCalls + 1
  /\ UNCHANGED <<results, orderFib, orderMemo, crashed, i, nCalls, lastArg,
                 lastRet, prevArg, prevRet, before, bodyCount>>

NextCountDown == CdCall \/ CdEnter

SpecCountDown == Init /\ [][NextCountDown]_vars

\* ---- sumTo, lines 22-30 ----
\* The activations of sumTo are sumTo(top), sumTo(top-1), ..., sumTo(x), each
\* but the last waiting on line 29 for the next; the stack holds this run as
\* one record with the fields top and x.

\* Init, with the evaluation orders (which sumTo does not use) fixed
InitSumTo == Init /\ orderFib = "left" /\ orderMemo = "left"

\* the largest argument whose sum fits int
LargestSumArg ==
  CHOOSE n \in 1..100000 :
    TriangleFits(n, Int32Max) /\ ~TriangleFits(n + 1, Int32Max)

SumToArgs == ((-MaxNeg)..MaxSum) \cup {LargestSumArg, LargestSumArg + 1}

\* a slip: the sum is one too small
SumToAddValueOff(r, sumto) == r + sumto - 1

\* sumTo(sumto-1) + sumto, for operands whose sum fits int
SumToAddValue(r, sumto) == r + sumto

\* the value an overflowing r + sumto wraps to (r, sumto > 0)
SumToWrapped(r, sumto) == (r - Int32Max - 1) + (sumto - Int32Max - 1)

\* the stack after the running activation of the run returns
SumToPop(run) ==
  IF run.x = run.top THEN <<>>
  ELSE <<[run EXCEPT !.x = @ + 1, !.pc = "add"]>>

\* the running activation returns v: to main, or into the sum of its caller
SumToReturn(v) ==
  /\ stack' = SumToPop([Top EXCEPT !.acc = v])
  /\ lastRet' = IF Top.x = Top.top THEN v ELSE lastRet

\* main (or any caller) calls sumTo(n)
SumToCall ==
  /\ ~crashed
  /\ stack = <<>>
  /\ nCalls = 0
  /\ \E n \in SumToArgs :
       /\ stack' = <<[fn |-> "sumTo", top |-> n, x |-> n, pc |-> "enter",
                      acc |-> 0]>>
       /\ lastArg' = n
  /\ nCalls' = nCalls + 1
  /\ totalCalls' = totalCalls + 1
  /\ UNCHANGED <<results, orderFib, orderMemo, out, crashed, i, lastRet,
                 prevArg, prevRet, before, newCalls, bodyCount>>

\* lines 24-29: the two base cases, or the recursive call sumTo(sumto-1)
SumToEnter ==
  /\ Running
  /\ Top.fn = "sumTo" /\ Top.pc = "enter"
  /\ IF Top.x <= 0 THEN
        /\ SumToReturn(0)
        /\ UNCHANGED <<newCalls, totalCalls>>
     ELSE IF Top.x = 1 THEN
        /\ SumToReturn(1)
        /\ UNCHANGED <<newCalls, totalCalls>>
     ELSE
        /\ stack' = <<[Top EXCEPT !.x = @ - 1]>>
        /\ newCalls' = newCalls + 1
        /\ totalCalls' = totalCalls + 1
        /\ UNCHANGED lastRet
  /\ UNCHANGED <<results, orderFib, orderMemo, out, crashed, i, nCalls,
                 lastArg, prevArg, prevRet, before, bodyCount>>

\* line 29: add sumto to the value the recursive call returned, and return;
\* a sum above the largest int is undefined behaviour (it wraps, or traps)
SumToAdd ==
  /\ Running
  /\ Top.fn = "sumTo" /\ Top.pc = "add"
  /\ IF Top.acc > Int32Max - Top.x
       THEN \/ /\ SumToReturn(SumToWrapped(Top.acc, Top.x))
               /\ UNCHANGED crashed
            \/ /\ crashed' = TRUE
               /\ UNCHANGED <<stack, lastRet>>
       ELSE /\ SumToReturn(SumToAddValue(Top.acc, Top.x))
            /\ UNCHANGED crashed
  /\ UNCHANGED <<results, orderFib, orderMemo, out, i, nCalls, lastArg,
                 prevArg, prevRet, before, newCalls, totalCalls, bodyCount>>

NextSumTo == SumToCall \/ SumToEnter \/ SumToAdd

SpecSumTo == InitSumTo /\ [][NextSumTo]_vars

\* ---- int arithmetic ----
\* a + b in 32-bit two's complement (what a wrapping build computes)
WrapAdd(a, b) ==
  IF b > 0 /\ a > Int32Max - b
    THEN (a - Int32Max - 1) + (b - Int32Max - 1)
  ELSE IF b < 0 /\ a < (-Int32Max - 1) - b
    THEN (a + Int32Max + 1) + (b + Int32Max + 1)
  ELSE a + b

\* x * r in 32-bit two's complement, for x >= 0
RECURSIVE WrapMul(_, _)
WrapMul(x, r) == IF x = 0 THEN 0 ELSE WrapAdd(WrapMul(x - 1, r), r)

\* x * r does not fit int (x >= 2, r >= 1)
MulOverflows(x, r) == r > Int32Max \div x

\* ---- factorial_of_an_integer_N, lines 62-68 ----
\* a slip: the base case returns its argument
FactBaseValueX(x) == x

\* return 1;
FactBaseValue(x) == 1

\* the value the function computes, and whether a multiplication on the way
\* overflowed int (undefined behaviour)
RECURSIVE factorial_of_an_integer_N(_)
factorial_of_an_integer_N(x) ==
  IF x <= 1 THEN [val |-> FactBaseValue(x), ub |-> FALSE]
  ELSE LET r == factorial_of_an_integer_N(x - 1) IN
       [val |-> WrapMul(x, r.val),
        ub |-> r.ub \/ (r.val >= 1 /\ MulOverflows(x, r.val))]

\* a caller has called an int function with n; it returned ret, or the
\* process was terminated
Returned(n, ret, crash) ==
  /\ ~crashed
  /\ stack = <<>>
  /\ nCalls < MaxCalls
  /\ nCalls' = nCalls + 1
  /\ prevArg' = lastArg
  /\ prevRet' = lastRet
  /\ lastArg' = n
  /\ lastRet' = ret
  /\ crashed' = crash
  /\ totalCalls' = totalCalls + 1
  /\ UNCHANGED <<results, stack, orderFib, orderMemo, i, before, newCalls,
                 bodyCount>>

\* a call factorial_of_an_integer_N(n): its value, or, after an overflow,
\* the wrapped value or a trap
FactCall ==
  /\ \E n \in (-MaxNeg)..MaxFact :
       LET r == factorial_of_an_integer_N(n) IN
         \/ Returned(n, r.val, FALSE)
         \/ r.ub /\ Returned(n, -1, TRUE)
  /\ UNCHANGED out

NextFactorial == FactCall

SpecFactorial == Init /\ [][NextFactorial]_vars

\* a / b and a % b of int operands, b > 0: the quotient is truncated towards 0
CDiv(a, b) == IF a >= 0 THEN a \div b ELSE -((-a) \div b)

CMod(a, b) == a - b * CDiv(a, b)

\* ---- quesion_two, lines 72-78 ----
\* arguments of the quiz functions: the small ones, those of the tutorial
\* text and the largest int
QuizArgs == ((-MaxNeg)..MaxDigit) \cup {100, 357, 999, 93427, Int32Max}

\* a slip: 10 is taken for a single digit
DigitIsBaseTen(x) == x <= 10

\* if(x < 10)
DigitIsBase(x) == x < 10

RECURSIVE quesion_two(_)
quesion_two(x) ==
  IF DigitIsBase(x) THEN x
  ELSE quesion_two(CDiv(x, 10)) + CMod(x, 10)

DigitCall ==
  /\ \E n \in QuizArgs : Returned(n, quesion_two(n), FALSE)
  /\ UNCHANGED out

NextDigitSum == DigitCall

SpecDigitSum == Init /\ [][NextDigitSum]_vars

\* ---- question_three, lines 80-91 ----
\* a slip: the digit is printed before the recursive call
PrintBefore(higher, bit) == <<bit>> \o higher

\* the output of an activation: what the recursive call printed, then its
\* own digit (lines 87-90)
PrintAfter(higher, bit) == Append(higher, bit)

\* what question_three(x) writes to std::cout
RECURSIVE question_three(_)
question_three(x) ==
  IF x = 0 THEN <<>>
  ELSE PrintAfter(question_three(CDiv(x, 2)), CMod(x, 2))

\* main calls question_three(n) with the integer it read
BinaryCall ==
  /\ nCalls = 0
  /\ \E n \in QuizArgs :
       /\ Returned(n, -1, FALSE)
       /\ out' = out \o question_three(n)

NextBinary == BinaryCall

SpecBinary == Init /\ [][NextBinary]_vars

\* ---- callers that pass an int, negative ones included ----
CallSigned ==
  /\ nCalls < MaxCalls
  /\ \E n \in (-MaxNeg)..MaxN : Invoke(ToSizeT(n))
  /\ UNCHANGED i

NextSigned == CallSigned \/ Step

SpecSigned == Init /\ [][NextSigned]_vars

\* ---- whole calls, for indices whose naive evaluation is too long to step ----
\* the value Fibonacci(x) returns, for x whose term fits std::size_t
FibValue(x) == FibNumber(x)

\* the std::size_t sum a + b converted to the int element push_back stores
\* (a, b in 0..Int32Max): the sum modulo 2^32, taken in -2^31..2^31-1
AddToInt(a, b) ==
  IF a > Int32Max - b
    THEN (a - Int32Max - 1) + (b - Int32Max - 1)
    ELSE a + b

\* the first index whose term Fibonacci(n-1) + Fibonacci(n-2) exceeds int
FirstOverflow ==
  CHOOSE n \in 2..60 :
    /\ FibValue(n - 1) > Int32Max - FibValue(n - 2)
    /\ \A m \in 2..(n - 1) : FibValue(m - 1) <= Int32Max - FibValue(m - 2)

\* one whole call Fibonacci_memoized_version(n), lines 47-60
EvalBig(n) ==
  /\ ~crashed
  /\ stack = <<>>
  /\ nCalls' = nCalls + 1
  /\ prevArg' = lastArg
  /\ prevRet' = lastRet
  /\ lastArg' = n
  /\ before' = results
  /\ IF CacheHit(n, results)
       THEN /\ lastRet' = ToSizeT(CachedValue(results, n))
            /\ UNCHANGED <<results, crashed>>
       ELSE /\ results' =
                 PushBack(results, AddToInt(FibValue(n - 1), FibValue(n - 2)))
            /\ \/ /\ \E v \in ReadResults(results', n) : lastRet' = ToSizeT(v)
                  /\ UNCHANGED crashed
               \/ /\ ~CacheHit(n, results')
                  /\ crashed' = TRUE
                  /\ lastRet' = -1
  /\ UNCHANGED <<stack, orderFib, orderMemo, out, i, newCalls, totalCalls,
                 bodyCount>>

\* a caller evaluates the indices in ascending order, as main's loop does,
\* up to the first one whose term exceeds int
OverflowCall ==
  /\ nCalls <= FirstOverflow
  /\ EvalBig(nCalls)

NextOverflow == OverflowCall

SpecOverflow == Init /\ [][NextOverflow]_vars

\* ---- properties ----
\* the latest top-level call has returned to its caller
Done == ~crashed /\ stack = <<>> /\ nCalls > 0

Keys(res) == 0..(Len(res) - 1)

\* C1: whatever calls were made before, evaluate(n) returns the n-th
\* Fibonacci number.
C1_ReturnsFibonacci == Done => lastRet = FibNumber(lastArg)

\* C2: after a call that missed the cache for n, cache[n] exists and equals
\* the value the call returned.
C2_MissStoresUnderKey ==
  (Done /\ ~(lastArg < Len(before)))
    => (lastArg < Len(results) /\ results[lastArg + 1] = lastRet)

\* C3: after evaluate(n) the cached keys are a superset of the keys before
\* the call and contain every key of 0..n.
C3_KeysGrow ==
  Done => (Keys(before) \subseteq Keys(results)
           /\ 0..lastArg \subseteq Keys(results))

\* C4: over the whole lifetime the recurrence body of each index is executed
\* at most once.
C4_ComputedAtMostOnce == \A k \in DOMAIN bodyCount : bodyCount[k] <= 1

\* C5: evaluate(10) then evaluate(5) returns 55 then 5, and the second call
\* makes no new call and adds no cache entry.
C5_ScenarioFromCache ==
  (Done /\ nCalls = Len(Scenario))
    => (prevRet = 55 /\ lastRet = 5 /\ newCalls = 0 /\ results = before)

\* C6: evaluate(n) called twice in a row returns the same value both times
\* and the second call leaves the cache as the first call left it.
C6_Idempotent ==
  (Done /\ nCalls >= 2 /\ prevArg = lastArg)
    => (lastRet = prevRet /\ results = before)

\* C7: a call whose index is below the cache length makes no further call,
\* leaves the cache unchanged and returns the cached entry.
C7_HitReturnsCached ==
  (nCalls > 0 /\ lastArg < Len(before))
    => /\ newCalls = 0
       /\ Len(stack) <= 1
       /\ results = before
       /\ ~crashed
       /\ stack = <<>> => lastRet = before[lastArg + 1]

\* a hit on an entry that an earlier call computed has returned
C7_Witness ==
  Done /\ lastArg < Len(before) /\ lastArg >= 2 /\ lastRet = before[lastArg + 1]

\* C8: every step keeps all populated cache entries as they are: the cache
\* only grows at its end.
C8_CacheOnlyGrows == [][IsPrefix(results, results')]_vars

\* a third call has returned after two earlier calls each added an entry
C8_Witness == Done /\ nCalls = 3 /\ Len(before) = 4 /\ Len(results) = 5

\* C9: no activation recurses without having checked the cache (every
\* sub-evaluation is an activation of the memoized function), and the cache
\* is populated only by an activation whose two operands have returned.
C9_CheckBeforeRecursing ==
  [][/\ \A k \in 1..Len(stack') : stack'[k].fn = "memo"
     /\ results' # results => (Top.fn = "memo" /\ Top.got = 2)]_vars

\* C10: the memoized loop of main makes 35 function calls in total.
C10_MemoLoopCalls == (i = MemoLoopEnd) => totalCalls = 35

\* C11: a call with a negative index is rejected at once: no function is
\* called on its behalf, nothing is cached and no value is returned.
C11_NegativeRejected ==
  (nCalls > 0 /\ lastArg < 0)
    => (newCalls = 0 /\ results = before /\ lastRet = -1)

\* C12: no term is stored or returned as a wrapped value: every cache entry
\* and every returned value is a non-negative number below 2^31.
C12_NoSilentWrap ==
  /\ \A k \in 1..Len(results) : results[k] >= 0
  /\ Done => lastRet >= 0

\* the output the tutorial gives for the naive loop (lines 277-279)
NaiveOutput == <<0, 1, 1, 2, 3, 5, 8, 13, 21, 34, 55, 89, 144>>

\* C13: every activation of Fibonacci returns the Fibonacci number of its
\* argument, and the naive loop prints 0 1 1 2 3 5 8 13 21 34 55 89 144.
C13_NaiveFibonacci ==
  /\ \A k \in 1..Len(stack) :
        stack[k].got = 2 => stack[k].acc = FibNumber(stack[k].x)
  /\ Done => lastRet = FibNumber(lastArg)
  /\ IsPrefix(out, NaiveOutput)
  /\ i = NaiveLoopEnd => out = NaiveOutput

\* the naive loop has finished and has printed the thirteen numbers
C13_Witness == i = NaiveLoopEnd /\ lastArg = 12 /\ out = NaiveOutput

\* C14: when the naive loop has finished, Fibonacci has been called
\* exactly 1205 times.
C14_NaiveLoopCalls == (i = NaiveLoopEnd) => totalCalls = 1205

\* the naive loop has finished after 1205 calls
C14_Witness == i = NaiveLoopEnd /\ stack = <<>> /\ totalCalls = 1205

\* push n, push n-1, ..., push 1, then pop 1, pop 2, ..., pop n
PushesThenPops(n) ==
  [k \in 1..n |-> <<"push", n - k + 1>>] \o [k \in 1..n |-> <<"pop", k>>]

\* C15: for n >= 1 the output of countDown_plus(n) grows along push n ..
\* push 1, pop 1 .. pop n, no activation is for a count below 1, and the
\* call has returned (empty stack) exactly when that output is complete.
C15_PushesThenPops ==
  (nCalls > 0 /\ lastArg >= 1)
    => /\ IsPrefix(out, PushesThenPops(lastArg))
       /\ \A k \in 1..Len(stack) : stack[k].x >= 1
       /\ (stack = <<>>) <=> (out = PushesThenPops(lastArg))

\* countDown_plus(5) has returned after the output given in lines 173-182
C15_Witness ==
  /\ lastArg = 5
  /\ stack = <<>>
  /\ out = << <<"push", 5>>, <<"push", 4>>, <<"push", 3>>, <<"push", 2>>,
              <<"push", 1>>, <<"pop", 1>>, <<"pop", 2>>, <<"pop", 3>>,
              <<"pop", 4>>, <<"pop", 5>> >>

\* C16: once countDown is called the stack is never empty again, and every
\* step of an activation prints "push count" and puts an activation for
\* count-1 on top of the activations already there, none of which is removed.
C16_NeverReturns ==
  [][/\ stack' # <<>>
     /\ stack # <<>> =>
          /\ Len(stack') = Len(stack) + 1
          /\ \A k \in 1..Len(stack) : stack'[k].x = stack[k].x
          /\ stack'[Len(stack')].x = Top.x - 1
          /\ out' = Append(out, <<"push", Top.x>>)]_vars

\* countDown(5) has counted down past zero and is ten activations deep
C16_Witness ==
  /\ nCalls = 1 /\ lastArg = 5
  /\ Len(stack) = 10
  /\ Top.x = -4
  /\ Len(out) = 9 /\ out[1] = <<"push", 5>> /\ out[9] = <<"push", -3>>

\* r is the sum of the integers 1..n (n >= 1), stated without forming a
\* number above the largest int
IsSumUpTo(r, n) == r >= n /\ r - n = Triangle(n - 1)

C18_Factorial ==
  (Done /\ lastArg >= 0 /\ FactorialWithin(lastArg, Int32Max) # -1)
    => /\ lastRet = FactorialWithin(lastArg, Int32Max)
       /\ lastArg = 0 => lastRet = 1

\* 0! = 1 and then 12! = 479001600, the largest that fits, were returned
C18_Witness ==
  /\ Done
  /\ prevArg = 0 /\ prevRet = 1
  /\ lastArg = 12 /\ lastRet = 479001600

\* C19: for every positive x the function returns the sum of the decimal
\* digits of x.
C19_DigitSum == (Done /\ lastArg > 0) => lastRet = DigitSum(lastArg)

\* 357 gave 15 and then 93427 gave 25
C19_Witness ==
  /\ Done
  /\ prevArg = 357 /\ prevRet = 15
  /\ lastArg = 93427 /\ lastRet = 25

\* C20: for every positive x the output is the binary representation of x:
\* digits 0 and 1 only, the first one 1, denoting x.
C20_Binary ==
  (Done /\ lastArg > 0)
    => /\ \A k \in 1..Len(out) : out[k] \in {0, 1}
       /\ out[1] = 1
       /\ BinaryValue(out) = lastArg

\* question_three(10) has printed 1010
C20_Witness == Done /\ lastArg = 10 /\ out = <<1, 0, 1, 0>>

\* C21: every entry of the cache is the Fibonacci number of its index.
C21_EntriesAreFibonacci ==
  \A k \in 1..Len(results) : results[k] = FibNumber(k - 1)

\* C22: while a call for n >= 0 is active at most n activations are nested
\* (one for a call that needs no recursion), and every call comes to an end.
C22_DepthBounded ==
  /\ [](nCalls > 0 => Len(stack) <= IF lastArg < 1 THEN 1 ELSE lastArg)
  /\ (stack # <<>>) ~> (stack = <<>> \/ crashed)

\* a call for 5 that missed the cache is five activations deep
C22_Witness ==
  /\ lastArg = 5 /\ Len(stack) = 5
  /\ stack[1].fn = "memo" /\ Top.fn = "fib" /\ Top.x = 1

====
